---- MODULE Spec2Model ----
(***************************************************************************)
(* tls-doctor: ordering of an unordered certificate bundle                 *)
(* (chain.rs), the AIA bundle builder (scaffold.rs), trust validation      *)
(* (validate.rs) and the diagnostic run that reports them (main.rs).       *)
(*                                                                         *)
(* A certificate is modelled by what the code reads of it: the DER of its  *)
(* subject name and of its issuer name (a DN, compared for byte equality   *)
(* only), plus, per component, the AIA caIssuers URLs or the fingerprint.  *)
(* The identity of a certificate inside one bundle is its position: the    *)
(* bundle is parsed by X509::stack_from_pem, so every entry is its own     *)
(* allocation and the pointer comparisons of chain.rs compare positions.   *)
(***************************************************************************)
EXTENDS Integers, Sequences, FiniteSets, Bags, TLC

VARIABLES
    certs,      \* chain.rs: the input slice `certs` (= `all`)
    pc,         \* position of the running function
    seq,        \* chain.rs: `seq`, as positions of `certs`
    used,       \* chain.rs: `used`, the addresses inserted, as positions
    current,    \* chain.rs: `current`, as a position
    unused,     \* chain.rs: the returned `unused`, as positions
    prev,       \* result of the previous call on the same set, or NoCall
    leaf,       \* scaffold.rs: the `leaf` argument of build_bundle_from_leaf
    chain,      \* scaffold.rs: `chain`
    seen,       \* scaffold.rs: `seen`, subject names already in the chain
    urls,       \* scaffold.rs: the URLs the `for url in urls` has yet to visit
    next_issuer, \* scaffold.rs: `next_issuer`
    fetched,    \* the URLs fetched for the current hop, in order
    fetches,    \* the number of fetches issued by this call
    allFailed,  \* every fetch of this call so far has failed
    result,     \* what the running function returned: NoResult, "Ok", "Err"
    mode,       \* main.rs: run_diag on a file ("file") or a server ("server")
    io,         \* what reading the file / connecting to the server gives
    peerLeaf,   \* main.rs: `leaf_opt`, the peer certificate or NoPeerCert
    peerStack,  \* main.rs: `chain`, the peer's stack (None acts as empty)
    dseq,       \* main.rs: `seq` of the diagnostic run, as certificates
    dunused,    \* main.rs: `unused` of run_with_file, as certificates
    issues,     \* main.rs: `issues`
    assembled,  \* `issues` as it stood when validate_chain was called
    engine,     \* what OpenSSL did during this validate_chain call
    outcome,    \* what validate_chain returned, or NoOutcome
    out,        \* what has been written to stdout, line by line
    subject,    \* util.rs: the entries of cert.subject_name(), as NIDs
    scanned,    \* util.rs: entries the loop of infer_cert_type has visited
    has_o,      \* util.rs: `has_o`
    has_sn,     \* util.rs: `has_sn`
    cert_type   \* what infer_cert_type returned, or NoKind

ordVars == <<certs, seq, used, current, unused, prev>>
bunVars == <<leaf, chain, seen, urls, next_issuer, fetched, fetches, allFailed>>
diagVars == <<mode, io, peerLeaf, peerStack, dseq, dunused, issues, assembled,
              engine, outcome, out>>
typeVars == <<subject, scanned, has_o, has_sn, cert_type>>
vars == <<pc, result, ordVars, bunVars, diagVars, typeVars>>

\* ------------------------------------------------------------------ bounds
MaxCerts == 3

\* Distinguished names, as DER byte strings that are only compared. Four
\* names give a chain of three plus an unrelated or a missing issuer.
DNs == {"dnA", "dnB", "dnC", "dnD"}
None == 0
NoCall == [leaf |-> None]
NoResult == "none"

\* ------------------------------------------------------------------ helpers
Range(s) == {s[i] : i \in 1..Len(s)}
Last(s) == s[Len(s)]
Min(S) == CHOOSE x \in S : \A y \in S : x <= y
SeqsUpTo(S, n) == UNION {[1..k -> S] : k \in 1..n}

\* The part of a certificate the orderer reads.
OrderCert == [subj : DNs, iss : DNs]

\* --------------------------------------------------- chain.rs, the orderer
\* Mutant: the index is keyed by the issuer name instead of the subject name.
BySubjectFirst_KeyedByIssuer(cs, dn) ==
    LET hits == {i \in 1..Len(cs) : cs[i].iss = dn}
    IN IF hits = {} THEN None ELSE Min(hits)

\* by_subject.get(dn).and_then(|v| v.first().copied()): the first input
\* position whose subject is dn, None when the index has no such key.
BySubjectFirst(cs, dn) ==
    LET hits == {i \in 1..Len(cs) : cs[i].subj = dn}
    IN IF hits = {} THEN None ELSE Min(hits)

IssuerSubjects(cs) == {cs[i].iss : i \in 1..Len(cs)}

\* candidate_leafs, in input order.
CandidateLeafs(cs) ==
    SelectSeq([i \in 1..Len(cs) |-> i],
              LAMBDA i : cs[i].subj \notin IssuerSubjects(cs))

\* Mutant: the candidates are ignored, the first input certificate is taken.
LeafOf_FirstInput(cs) == 1

\* Mutant: the last candidate is taken instead of the first.
LeafOf_LastCandidate(cs) ==
    IF CandidateLeafs(cs) # <<>> THEN Last(CandidateLeafs(cs)) ELSE 1

\* candidate_leafs.first().copied().unwrap_or_else(|| all[0])
LeafOf(cs) ==
    IF CandidateLeafs(cs) # <<>> THEN Head(CandidateLeafs(cs)) ELSE 1

\* Mutant: the self-signed test is made on the issuer found, which is then
\* not appended.
WalkStep_StopBeforeRoot(cs, sq) ==
    LET cur == cs[Last(sq)]
        n == BySubjectFirst(cs, cur.iss)
    IN IF cur.iss = cur.subj THEN [kind |-> "root", next |-> None]
       ELSE IF n = None THEN [kind |-> "gap", next |-> None]
       ELSE IF n \in Range(sq) THEN [kind |-> "loop", next |-> None]
       ELSE IF cs[n].iss = cs[n].subj THEN [kind |-> "root", next |-> None]
       ELSE [kind |-> "append", next |-> n]

\* Mutant: the issuer found is appended without looking for it in seq.
WalkStep_NoCycleGuard(cs, sq) ==
    LET cur == cs[Last(sq)]
        n == BySubjectFirst(cs, cur.iss)
    IN IF cur.iss = cur.subj THEN [kind |-> "root", next |-> None]
       ELSE IF n = None THEN [kind |-> "gap", next |-> None]
       ELSE [kind |-> "append", next |-> n]

\* One iteration of the loop on the sequence built so far.
WalkStep(cs, sq) ==
    LET cur == cs[Last(sq)]
        n == BySubjectFirst(cs, cur.iss)
    IN IF cur.iss = cur.subj THEN [kind |-> "root", next |-> None]
       ELSE IF n = None THEN [kind |-> "gap", next |-> None]
       ELSE IF n \in Range(sq) THEN [kind |-> "loop", next |-> None]
       ELSE [kind |-> "append", next |-> n]

\* Mutant: the filter keeps the used certificates (the negation is lost).
UnusedOf_Inverted(cs, u) ==
    SelectSeq([i \in 1..Len(cs) |-> i], LAMBDA i : i \in u)

\* Mutant: the filter compares subject names instead of addresses.
UnusedOf_BySubject(cs, u) ==
    SelectSeq([i \in 1..Len(cs) |-> i],
              LAMBDA i : cs[i].subj \notin {cs[j].subj : j \in u})

\* all.into_iter().filter(|c| !used.contains(c)).collect()
UnusedOf(cs, u) ==
    SelectSeq([i \in 1..Len(cs) |-> i], LAMBDA i : i \notin u)

RECURSIVE Walk(_, _)
Walk(cs, sq) ==
    LET s == WalkStep(cs, sq)
    IN IF s.kind = "append" THEN Walk(cs, Append(sq, s.next)) ELSE sq

\* The whole call, as run_with_file uses it: (seq, unused).
OrderChain(cs) ==
    LET sq == Walk(cs, <<LeafOf(cs)>>)
    IN [seq |-> sq, unused |-> UnusedOf(cs, Range(sq))]

\* Lines 9-34: index, leaf selection, first push.
OrderStart ==
    /\ pc = "order"
    /\ seq' = <<LeafOf(certs)>>
    /\ used' = {LeafOf(certs)}
    /\ current' = LeafOf(certs)
    /\ pc' = "walk"
    /\ UNCHANGED <<certs, unused, prev, result, bunVars, diagVars,
                   typeVars>>

\* Line 38: self-signed, break.
WalkRoot ==
    /\ pc = "walk"
    /\ WalkStep(certs, seq).kind = "root"
    /\ pc' = "collect"
    /\ UNCHANGED <<certs, seq, used, current, unused, prev, result, bunVars, diagVars,
                   typeVars>>

\* Line 47: the issuer is not in the index, break.
WalkGap ==
    /\ pc = "walk"
    /\ WalkStep(certs, seq).kind = "gap"
    /\ pc' = "collect"
    /\ UNCHANGED <<certs, seq, used, current, unused, prev, result, bunVars, diagVars,
                   typeVars>>

\* Line 42: the issuer is already in seq, break.
WalkLoop ==
    /\ pc = "walk"
    /\ WalkStep(certs, seq).kind = "loop"
    /\ pc' = "collect"
    /\ UNCHANGED <<certs, seq, used, current, unused, prev, result, bunVars, diagVars,
                   typeVars>>

\* Lines 43-45.
WalkAppend ==
    /\ pc = "walk"
    /\ WalkStep(certs, seq).kind = "append"
    /\ seq' = Append(seq, WalkStep(certs, seq).next)
    /\ current' = WalkStep(certs, seq).next
    /\ used' = used \cup {WalkStep(certs, seq).next}
    /\ UNCHANGED <<certs, pc, unused, prev, result, bunVars, diagVars,
                   typeVars>>

\* Lines 50-54.
CollectUnused ==
    /\ pc = "collect"
    /\ unused' = UnusedOf(certs, used)
    /\ pc' = "returned"
    /\ UNCHANGED <<certs, seq, used, current, prev, result, bunVars, diagVars,
                   typeVars>>

\* The certificates at the positions sq, and their multiset.
CertsAt(cs, sq) == [k \in 1..Len(sq) |-> cs[sq[k]]]
BagOf(s) == [x \in Range(s) |-> Cardinality({i \in 1..Len(s) : s[i] = x})]

\* The caller calls again with the same certificates in another order
\* (tests.rs supplies shuffled inputs); the first result is remembered.
Recall ==
    /\ pc = "returned"
    /\ prev = NoCall
    /\ \E p \in Permutations(1..Len(certs)) :
          certs' = [i \in 1..Len(certs) |-> certs[p[i]]]
    /\ prev' = [leaf |-> certs[seq[1]],
                unused |-> BagOf(CertsAt(certs, unused))]
    /\ pc' = "order"
    /\ seq' = <<>>
    /\ used' = {}
    /\ current' = None
    /\ unused' = <<>>
    /\ UNCHANGED <<result, bunVars, diagVars,
                   typeVars>>

\* No bundle is being built.
BundleIdle ==
    /\ leaf = [subj |-> "", iss |-> "", aia |-> <<>>]
    /\ chain = <<>>
    /\ seen = {}
    /\ urls = <<>>
    /\ next_issuer = [subj |-> "", iss |-> "", aia |-> <<>>]
    /\ fetched = <<>>
    /\ fetches = 0
    /\ allFailed = TRUE

\* validate_chain has not returned / OpenSSL has not been called.
NoOutcome == [kind |-> "none", code |-> "", depth |-> 0, on |-> ""]
NoEngine == [step |-> "none", ret |-> "", code |-> "", depth |-> 0,
             known |-> FALSE]
NoPeerCert == [subj |-> "", iss |-> "", fp |-> 0]

\* No diagnostic run.
DiagIdle ==
    /\ mode = "none"
    /\ io = "none"
    /\ peerLeaf = NoPeerCert
    /\ peerStack = <<>>
    /\ dseq = <<>>
    /\ dunused = <<>>
    /\ issues = <<>>
    /\ assembled = <<>>
    /\ engine = NoEngine
    /\ outcome = NoOutcome
    /\ out = <<>>

\* infer_cert_type is not running.
NoKind == ""
TypeIdle ==
    /\ subject = <<>>
    /\ scanned = 0
    /\ has_o = FALSE
    /\ has_sn = FALSE
    /\ cert_type = NoKind

\* No bundle is being ordered.
OrderIdle ==
    /\ certs = <<>>
    /\ seq = <<>>
    /\ used = {}
    /\ current = None
    /\ unused = <<>>
    /\ prev = NoCall

InitOrder ==
    /\ certs \in SeqsUpTo(OrderCert, MaxCerts)
    /\ pc = "order"
    /\ seq = <<>>
    /\ used = {}
    /\ current = None
    /\ unused = <<>>
    /\ prev = NoCall
    /\ result = NoResult
    /\ BundleIdle
    /\ DiagIdle
    /\ TypeIdle

NextOrder ==
    \/ OrderStart
    \/ WalkRoot
    \/ WalkGap
    \/ WalkLoop
    \/ WalkAppend
    \/ CollectUnused

\* One call of order_chain_leaf_to_root on every bundle within the bounds.
SpecOrder == InitOrder /\ [][NextOrder]_vars

NextPerm ==
    \/ NextOrder
    \/ Recall

\* Two calls on the same set of certificates, in any two orders.
SpecPerm == InitOrder /\ [][NextPerm]_vars

\* ------------------------------------- scaffold.rs, the AIA bundle builder
MaxUrls == 2

BundleDNs == {"dnA", "dnB", "dnC"}
\* The caIssuers URIs of an AIA extension, in the order of the extension, as
\* URL names: up to MaxUrls different ones.
AiaLists == {[k \in 1..n |-> k] : n \in 0..MaxUrls}
\* An extension that lists the same URI twice: nothing keeps it from that.
RepeatingLists == {<<1, 1>>}
\* The part of a certificate the builder reads: names and caIssuers URIs.
\* The certificates a server returns list different URIs; the leaf, which is
\* the user's file, may also list one twice.
AiaCert == [subj : BundleDNs, iss : BundleDNs, aia : AiaLists]
LeafCert ==
    [subj : BundleDNs, iss : BundleDNs, aia : AiaLists \cup RepeatingLists]
\* Option::None of a certificate.
NoCert == [subj |-> "", iss |-> "", aia |-> <<>>]

\* What one GET can come back with: the request fails (connection, timeout,
\* too many redirects), or a response arrives with a status and a body. A
\* body cannot be read, is neither DER nor PEM, is one DER certificate, or is
\* a PEM sequence (of none, one or two certificates here).
PemStacks ==
    {<<>>} \cup {<<c>> : c \in AiaCert} \cup {<<c, d>> : c, d \in AiaCert}
Body ==
    [form : {"unreadable", "garbage"}]
        \cup [form : {"der"}, cert : AiaCert]
        \cup [form : {"pem"}, stack : PemStacks]
\* The body of an error page: not a certificate, or one DER certificate.
ErrorBody == [form : {"garbage"}] \cup [form : {"der"}, cert : AiaCert]
Response ==
    [kind : {"transport"}]
        \cup [kind : {"http"}, success : {TRUE}, body : Body]
        \cup [kind : {"http"}, success : {FALSE}, body : ErrorBody]

\* The fetch failed: transport error, non-2xx status, or unparseable body.
IsFailure(r) ==
    \/ r.kind = "transport"
    \/ ~r.success
    \/ r.body.form \in {"unreadable", "garbage"}

\* Mutant: the status of the response is not checked.
FetchIssuerFromUrl_StatusUnchecked(r) ==
    IF r.kind = "transport" THEN [ok |-> FALSE, cands |-> <<>>]
    ELSE IF r.body.form = "der" THEN [ok |-> TRUE, cands |-> <<r.body.cert>>]
    ELSE IF r.body.form = "pem" THEN [ok |-> TRUE, cands |-> r.body.stack]
    ELSE [ok |-> FALSE, cands |-> <<>>]

\* fetch_issuer_from_url: Err when send() fails, on a non-2xx status, when
\* the body cannot be read or is neither DER nor PEM; else the candidates,
\* DER tried first.
FetchIssuerFromUrl(r) ==
    IF r.kind = "transport" THEN [ok |-> FALSE, cands |-> <<>>]
    ELSE IF ~r.success THEN [ok |-> FALSE, cands |-> <<>>]
    ELSE IF r.body.form = "der" THEN [ok |-> TRUE, cands |-> <<r.body.cert>>]
    ELSE IF r.body.form = "pem" THEN [ok |-> TRUE, cands |-> r.body.stack]
    ELSE [ok |-> FALSE, cands |-> <<>>]

\* is_self_issued
IsSelfIssued(c) == c.subj = c.iss

\* aia_ca_issuers_urls
AiaCaIssuersUrls(c) == c.aia

\* Mutant: the first candidate is taken without comparing its subject.
FirstMatch_Any(cands, cur_iss) ==
    IF cands = <<>> THEN NoCert ELSE cands[1]

\* Lines 114-122: the first candidate whose subject is current's issuer.
FirstMatch(cands, cur_iss) ==
    LET hits == {i \in 1..Len(cands) : cands[i].subj = cur_iss}
    IN IF hits = {} THEN NoCert ELSE cands[Min(hits)]

\* Mutant: the loop guard looks only at the leaf's subject.
AlreadySeen_LeafOnly(c) == c.subj = chain[1].subj

\* Mutant: the loop guard is dropped.
AlreadySeen_Never(c) == FALSE

\* Line 129: seen.contains(&subj)
AlreadySeen(c) == c.subj \in seen

\* Mutant: the self-issued stop is missing.
StopAtSelfIssued_Never(c) == FALSE

\* Line 102: if is_self_issued(current) { break; }
StopAtSelfIssued(c) == IsSelfIssued(c)

\* Lines 88-92: Client::builder()...build()? fails.
ClientBuildFails ==
    /\ pc = "client"
    /\ result' = "Err"
    /\ pc' = "done"
    /\ UNCHANGED <<ordVars, bunVars, diagVars,
                   typeVars>>

\* Lines 88-97: the client is built, chain = [leaf], seen = {leaf subject}.
BundleStart ==
    /\ pc = "client"
    /\ chain' = <<leaf>>
    /\ seen' = {leaf.subj}
    /\ pc' = "loop"
    /\ UNCHANGED <<result, ordVars, diagVars, leaf, urls, next_issuer, fetched,
                   fetches, allFailed,
                   typeVars>>

\* Line 102.
LoopSelfIssued ==
    /\ pc = "loop"
    /\ StopAtSelfIssued(Last(chain))
    /\ pc' = "return"
    /\ UNCHANGED <<result, ordVars, bunVars, diagVars,
                   typeVars>>

\* Lines 104-108: no AIA URL, stop.
LoopNoAia ==
    /\ pc = "loop"
    /\ ~StopAtSelfIssued(Last(chain))
    /\ AiaCaIssuersUrls(Last(chain)) = <<>>
    /\ pc' = "return"
    /\ UNCHANGED <<result, ordVars, bunVars, diagVars,
                   typeVars>>

\* Lines 104-111: the URLs of current, next_issuer = NoCert.
LoopUrls ==
    /\ pc = "loop"
    /\ ~StopAtSelfIssued(Last(chain))
    /\ AiaCaIssuersUrls(Last(chain)) # <<>>
    /\ urls' = AiaCaIssuersUrls(Last(chain))
    /\ next_issuer' = NoCert
    /\ fetched' = <<>>
    /\ pc' = "fetch"
    /\ UNCHANGED <<result, ordVars, diagVars, leaf, chain, seen, fetches,
                   allFailed,
                   typeVars>>

\* Lines 111-124: one iteration of `for url in urls`: the fetch, the scan of
\* its candidates, and the break once an issuer is found.
Fetch ==
    /\ pc = "fetch"
    /\ \E r \in Response :
          LET res == FetchIssuerFromUrl(r)
              hit == IF res.ok THEN FirstMatch(res.cands, Last(chain).iss)
                     ELSE NoCert
          IN /\ next_issuer' = hit
             /\ allFailed' = (allFailed /\ IsFailure(r))
             /\ pc' = IF hit # NoCert \/ Tail(urls) = <<>> THEN "match"
                      ELSE "fetch"
    /\ fetched' = Append(fetched, Head(urls))
    /\ fetches' = fetches + 1
    /\ urls' = Tail(urls)
    /\ UNCHANGED <<result, ordVars, diagVars, leaf, chain, seen,
                   typeVars>>

\* Lines 129-132: the issuer's subject is already in the chain, stop.
MatchSeen ==
    /\ pc = "match"
    /\ next_issuer # NoCert
    /\ AlreadySeen(next_issuer)
    /\ pc' = "return"
    /\ UNCHANGED <<result, ordVars, bunVars, diagVars,
                   typeVars>>

\* Lines 133-135: append the issuer and go round again.
MatchAppend ==
    /\ pc = "match"
    /\ next_issuer # NoCert
    /\ ~AlreadySeen(next_issuer)
    /\ chain' = Append(chain, next_issuer)
    /\ seen' = seen \cup {next_issuer.subj}
    /\ pc' = "loop"
    /\ UNCHANGED <<result, ordVars, diagVars, leaf, urls, next_issuer, fetched,
                   fetches, allFailed,
                   typeVars>>

\* Line 137: no URL gave a matching issuer, stop.
MatchNone ==
    /\ pc = "match"
    /\ next_issuer = NoCert
    /\ pc' = "return"
    /\ UNCHANGED <<result, ordVars, bunVars, diagVars,
                   typeVars>>

\* Line 141: Ok(chain).
BundleReturn ==
    /\ pc = "return"
    /\ result' = "Ok"
    /\ pc' = "done"
    /\ UNCHANGED <<ordVars, bunVars, diagVars,
                   typeVars>>

InitBundle ==
    /\ leaf \in LeafCert
    /\ pc = "client"
    /\ result = NoResult
    /\ chain = <<>>
    /\ seen = {}
    /\ urls = <<>>
    /\ next_issuer = NoCert
    /\ fetched = <<>>
    /\ fetches = 0
    /\ allFailed = TRUE
    /\ OrderIdle
    /\ DiagIdle
    /\ TypeIdle

NextBundle ==
    \/ ClientBuildFails
    \/ BundleStart
    \/ LoopSelfIssued
    \/ LoopNoAia
    \/ LoopUrls
    \/ Fetch
    \/ MatchSeen
    \/ MatchAppend
    \/ MatchNone
    \/ BundleReturn

\* One call of build_bundle_from_leaf on every leaf, against every network.
SpecBundle == InitBundle /\ [][NextBundle]_vars

\* Either walk that grows a chain by issuer links: one call of
\* order_chain_leaf_to_root or one call of build_bundle_from_leaf.
InitChains == InitOrder \/ InitBundle
NextChains == NextOrder \/ NextBundle
SpecChains == InitChains /\ [][NextChains]_vars

\* ------------------------------ validate.rs and main.rs, the diagnostic run
MaxBundle == 2

DiagDNs == {"dnA", "dnB", "dnC"}
PeerDNs == {"dnA", "dnB"}
\* Names that carry no Common Name (nor any other displayed attribute).
BareDNs == {"dnC"}
\* A certificate of a PEM bundle, and one sent by a peer: names, and what is
\* left of the certificate's bytes (two certificates with the same names can
\* differ, and then their SHA-256 digests differ).
FileCert == [subj : DiagDNs, iss : DiagDNs, fp : {1}]
PeerCert == [subj : PeerDNs, iss : PeerDNs, fp : {1, 2}]

\* util.rs subject_cn / issuer_cn: the CN, "" for Option::None.
SubjectCn(c) == IF c.subj \in BareDNs THEN "" ELSE c.subj
IssuerCn(c) == IF c.iss \in BareDNs THEN "" ELSE c.iss
\* .map(|cn| format!("CN={}", cn)).unwrap_or_else(|| "<unknown>")
CnLabel(cn) == IF cn = "" THEN "<unknown>" ELSE cn
\* util.rs format_name_human: empty when no displayed attribute is present.
FormatNameHuman(dn) == IF dn \in BareDNs THEN "" ELSE dn

\* One issue string: its fixed text (kind) and what is formatted into it.
Issue(kind, who, code, depth) ==
    [kind |-> kind, who |-> who, code |-> code, depth |-> depth]
NoIssue == Issue("", <<>>, "", 0)
\* "bundle contains unrelated certificate(s): <labels>"
UnrelatedIssue(un) ==
    Issue("unrelated", [k \in 1..Len(un) |-> CnLabel(SubjectCn(un[k]))], "", 0)
\* "chain incomplete: missing issuer <label>"
IncompleteIssue(c) == Issue("incomplete", <<CnLabel(IssuerCn(c))>>, "", 0)
\* "root certificate signature does not verify itself"
RootSignatureIssue == Issue("root_signature", <<>>, "", 0)
\* The message of Ok(Err(msg)): "<err> (depth <d> on <snippet>)"
InvalidIssue(o) == Issue("invalid", <<o.on>>, o.code, o.depth)
\* "validation error: <e>"
EngineErrorIssue(o) == Issue("validation_error", <<>>, o.code, 0)

\* What OpenSSL can do during one validate_chain call: one of the set-up
\* calls fails (stack.push only when there is an intermediate), or
\* verify_cert runs and passes, fails with an error code at a depth (with or
\* without a current certificate), or returns an error itself.
VerifyErrors == {"expired", "no_issuer"}
SetupSteps(inter) ==
    {"store_new", "default_paths", "stack_new", "ctx_new", "ctx_init"}
        \cup (IF inter # <<>> THEN {"stack_push"} ELSE {})
EngineRuns(inter) ==
    [step : SetupSteps(inter), ret : {""}, code : {""}, depth : {0},
     known : {FALSE}]
        \cup [step : {"verify"}, ret : {"pass", "error"}, code : {""},
              depth : {0}, known : {FALSE}]
        \cup [step : {"verify"}, ret : {"fail"}, code : VerifyErrors,
              depth : 0..Len(inter), known : BOOLEAN]

\* Lines 30-34: the failing certificate, rendered.
CertSnippet(leafc, inter, eng) ==
    IF ~eng.known THEN "<unknown certificate>"
    ELSE LET name == FormatNameHuman((<<leafc>> \o inter)[eng.depth + 1].subj)
         IN IF name = "" THEN "<unknown subject>" ELSE name

\* Mutant: a failed set-up is reported as a failed validation.
ValidateChain_SetupAsInvalid(leafc, inter, eng) ==
    IF eng.step = "verify" /\ eng.ret = "pass"
    THEN [kind |-> "Valid", code |-> "", depth |-> 0, on |-> ""]
    ELSE IF eng.step = "verify" /\ eng.ret = "error"
    THEN [kind |-> "EngineError", code |-> "verify", depth |-> 0, on |-> ""]
    ELSE [kind |-> "Invalid", code |-> eng.code, depth |-> eng.depth,
          on |-> "<unknown certificate>"]

\* validate_chain: Ok(Ok(())), Ok(Err(msg)) or Err(e).
ValidateChain(leafc, inter, eng) ==
    IF eng.step # "verify"
    THEN [kind |-> "EngineError", code |-> eng.step, depth |-> 0, on |-> ""]
    ELSE IF eng.ret = "pass"
    THEN [kind |-> "Valid", code |-> "", depth |-> 0, on |-> ""]
    ELSE IF eng.ret = "fail"
    THEN [kind |-> "Invalid", code |-> eng.code, depth |-> eng.depth,
          on |-> CertSnippet(leafc, inter, eng)]
    ELSE [kind |-> "EngineError", code |-> "verify", depth |-> 0, on |-> ""]

\* Lines written to stdout.
Line(tag, idx, c, i) == [tag |-> tag, idx |-> idx, cert |-> c, issue |-> i]
HeaderLine == Line("header", 0, NoPeerCert, NoIssue)
CertLine(idx, c) == Line("cert", idx, c, NoIssue)
SeparatorLine == Line("is_issued_by", 0, NoPeerCert, NoIssue)
ValidLine == Line("valid", 0, NoPeerCert, NoIssue)
HasIssuesLine == Line("has_issues", 0, NoPeerCert, NoIssue)
IssueLine(i) == Line("issue", 0, NoPeerCert, i)
IssueLines(is) == [k \in 1..Len(is) |-> IssueLine(is[k])]

\* print.rs print_chain_with_separator
RECURSIVE PrintChainFrom(_, _)
PrintChainFrom(sq, k) ==
    IF k > Len(sq) THEN <<>>
    ELSE <<CertLine(k, sq[k])>>
             \o (IF k < Len(sq) THEN <<SeparatorLine>> ELSE <<>>)
             \o PrintChainFrom(sq, k + 1)
PrintChainWithSeparator(sq) == PrintChainFrom(sq, 1)
\* main.rs lines 116-122: the unused certificates, numbered after the chain.
PrintUnused(sq, un) == [k \in 1..Len(un) |-> CertLine(Len(sq) + k, un[k])]
\* The lines written before print_cert_info_to fails on the k-th certificate.
BeforeCert(lines, k) ==
    LET at == {n \in 1..Len(lines) :
                 /\ lines[n].tag = "cert"
                 /\ Cardinality({m \in 1..n : lines[m].tag = "cert"}) = k}
    IN SubSeq(lines, 1, Min(at) - 1)

\* X509::verify on the self-signed last certificate: Ok(true), Ok(false),
\* Err. (public_key() is Ok there: print_cert_info_to has already taken it.)
SelfChecks(c) ==
    IF c.subj = c.iss THEN {"ok_true", "ok_false", "err"} ELSE {"none"}

\* main.rs lines 115-146: the issues of the bundle itself.
AssembleIssues(sq, un, selfcheck) ==
    (IF un # <<>> THEN <<UnrelatedIssue(un)>> ELSE <<>>)
        \o (IF Last(sq).subj # Last(sq).iss THEN <<IncompleteIssue(Last(sq))>>
            ELSE IF selfcheck = "err" THEN <<RootSignatureIssue>>
            ELSE <<>>)

\* main.rs lines 150-176: `issues` after the match on validate_chain.
IssuesAfter(o, is) ==
    IF o.kind = "Valid" THEN is
    ELSE IF o.kind = "Invalid" THEN Append(is, InvalidIssue(o))
    ELSE Append(is, EngineErrorIssue(o))

\* Mutant: an engine-valid chain is reported valid whatever the issues.
FileVerdict_IgnoresIssues(o, is) ==
    IF o.kind = "Valid" THEN <<ValidLine>>
    ELSE <<HasIssuesLine>> \o IssueLines(is)

\* main.rs lines 150-176: what is printed, given `issues` after the match.
FileVerdict(o, is) ==
    IF o.kind = "Valid" /\ is = <<>> THEN <<ValidLine>>
    ELSE <<HasIssuesLine>> \o IssueLines(is)

\* Mutant: an engine error is propagated instead of being printed.
ReportVerdict_EngineErrorSilent(o) ==
    IF o.kind = "Valid" THEN <<ValidLine>>
    ELSE IF o.kind = "Invalid" THEN <<HasIssuesLine, IssueLine(InvalidIssue(o))>>
    ELSE <<>>

\* validate.rs lines 44-62: validate_and_report prints the outcome only.
ReportVerdict(o) ==
    IF o.kind = "Valid" THEN <<ValidLine>>
    ELSE IF o.kind = "Invalid" THEN <<HasIssuesLine, IssueLine(InvalidIssue(o))>>
    ELSE <<HasIssuesLine, IssueLine(EngineErrorIssue(o))>>

\* main.rs lines 66-88: the peer certificate, then the peer's stack without
\* the certificates whose SHA-256 digest is the leaf's.
PeerSeq(lf, stack) ==
    (IF lf # NoPeerCert THEN <<lf>> ELSE <<>>)
        \o SelectSeq(stack, LAMBDA c : ~(lf # NoPeerCert /\ c = lf))

\* main.rs lines 100-106: the file cannot be read, cannot be parsed, or
\* holds no certificate.
FileRejected ==
    /\ pc = "diag"
    /\ mode = "file"
    /\ io \in {"unreadable", "unparseable"} \/ certs = <<>>
    /\ result' = "Err"
    /\ pc' = "done"
    /\ UNCHANGED <<ordVars, bunVars, diagVars,
                   typeVars>>

\* main.rs lines 109-122: order, print the chain and the unused certificates.
FileOrderPrint ==
    /\ pc = "diag"
    /\ mode = "file"
    /\ io = "ok"
    /\ certs # <<>>
    /\ LET r == OrderChain(certs)
           sq == CertsAt(certs, r.seq)
           un == CertsAt(certs, r.unused)
       IN /\ dseq' = sq
          /\ dunused' = un
          /\ out' = <<HeaderLine>> \o PrintChainWithSeparator(sq)
                        \o PrintUnused(sq, un)
    /\ pc' = "assemble"
    /\ UNCHANGED <<result, ordVars, bunVars, mode, io, peerLeaf, peerStack,
                   issues, assembled, engine, outcome,
                   typeVars>>

\* main.rs lines 113, 120: print_cert_info_to fails on some certificate
\* (public_key() or the fingerprint), the run returns the error.
FilePrintFails ==
    /\ pc = "diag"
    /\ mode = "file"
    /\ io = "ok"
    /\ certs # <<>>
    /\ LET r == OrderChain(certs)
           sq == CertsAt(certs, r.seq)
           un == CertsAt(certs, r.unused)
       IN /\ dseq' = sq
          /\ dunused' = un
          /\ \E k \in 1..Len(certs) :
                out' = <<HeaderLine>>
                    \o BeforeCert(PrintChainWithSeparator(sq)
                                      \o PrintUnused(sq, un), k)
    /\ result' = "Err"
    /\ pc' = "done"
    /\ UNCHANGED <<ordVars, bunVars, mode, io, peerLeaf, peerStack, issues,
                   assembled, engine, outcome,
                   typeVars>>

\* main.rs lines 115-146.
FileAssemble ==
    /\ pc = "assemble"
    /\ \E sc \in SelfChecks(Last(dseq)) :
          issues' = AssembleIssues(dseq, dunused, sc)
    /\ pc' = "validate"
    /\ UNCHANGED <<result, ordVars, bunVars, mode, io, peerLeaf, peerStack,
                   dseq, dunused, assembled, engine, outcome, out,
                   typeVars>>

\* main.rs line 149: validate_chain(leaf, &seq[1..]).
FileValidate ==
    /\ pc = "validate"
    /\ \E eng \in EngineRuns(Tail(dseq)) :
          /\ engine' = eng
          /\ outcome' = ValidateChain(Head(dseq), Tail(dseq), eng)
    /\ assembled' = issues
    /\ pc' = "verdict"
    /\ UNCHANGED <<result, ordVars, bunVars, mode, io, peerLeaf, peerStack,
                   dseq, dunused, issues, out,
                   typeVars>>

\* main.rs lines 150-177, 185.
FileReport ==
    /\ pc = "verdict"
    /\ issues' = IssuesAfter(outcome, issues)
    /\ out' = out \o FileVerdict(outcome, IssuesAfter(outcome, issues))
    /\ result' = "Ok"
    /\ pc' = "done"
    /\ UNCHANGED <<ordVars, bunVars, mode, io, peerLeaf, peerStack, dseq,
                   dunused, assembled, engine, outcome,
                   typeVars>>

\* main.rs lines 45-58: connect, connector or handshake fails.
ServerUnreachable ==
    /\ pc = "diag"
    /\ mode = "server"
    /\ io # "ok"
    /\ result' = "Err"
    /\ pc' = "done"
    /\ UNCHANGED <<ordVars, bunVars, diagVars,
                   typeVars>>

\* main.rs lines 61-90: header, seq from the peer's certificates, the chain.
ServerChainPrint ==
    /\ pc = "diag"
    /\ mode = "server"
    /\ io = "ok"
    /\ dseq' = PeerSeq(peerLeaf, peerStack)
    /\ out' = <<HeaderLine>>
                  \o PrintChainWithSeparator(PeerSeq(peerLeaf, peerStack))
    /\ pc' = "report"
    /\ UNCHANGED <<result, ordVars, bunVars, mode, io, peerLeaf, peerStack,
                   dunused, issues, assembled, engine, outcome,
                   typeVars>>

\* main.rs line 90: print_chain_with_separator fails.
ServerPrintFails ==
    /\ pc = "diag"
    /\ mode = "server"
    /\ io = "ok"
    /\ dseq' = PeerSeq(peerLeaf, peerStack)
    /\ \E k \in 1..Len(PeerSeq(peerLeaf, peerStack)) :
          out' = <<HeaderLine>>
              \o BeforeCert(
                     PrintChainWithSeparator(PeerSeq(peerLeaf, peerStack)), k)
    /\ result' = "Err"
    /\ pc' = "done"
    /\ UNCHANGED <<ordVars, bunVars, mode, io, peerLeaf, peerStack, dunused,
                   issues, assembled, engine, outcome,
                   typeVars>>

\* validate.rs lines 42-43: validate_and_report calls validate_chain.
ReportValidate ==
    /\ pc = "report"
    /\ dseq # <<>>
    /\ \E eng \in EngineRuns(Tail(dseq)) :
          /\ engine' = eng
          /\ outcome' = ValidateChain(Head(dseq), Tail(dseq), eng)
    /\ pc' = "reported"
    /\ UNCHANGED <<result, ordVars, bunVars, mode, io, peerLeaf, peerStack,
                   dseq, dunused, issues, assembled, out,
                   typeVars>>

\* validate.rs lines 44-65, main.rs line 95.
ReportPrint ==
    /\ pc = "reported"
    /\ out' = out \o ReportVerdict(outcome)
    /\ result' = "Ok"
    /\ pc' = "done"
    /\ UNCHANGED <<ordVars, bunVars, mode, io, peerLeaf, peerStack, dseq,
                   dunused, issues, assembled, engine, outcome,
                   typeVars>>

\* validate.rs lines 42, 65: no certificate at all, nothing is printed.
ReportNothing ==
    /\ pc = "report"
    /\ dseq = <<>>
    /\ result' = "Ok"
    /\ pc' = "done"
    /\ UNCHANGED <<ordVars, bunVars, diagVars,
                   typeVars>>

InitDiag ==
    /\ pc = "diag"
    /\ result = NoResult
    /\ mode \in {"file", "server"}
    /\ io \in IF mode = "file" THEN {"unreadable", "unparseable", "ok"}
              ELSE {"no_connect", "no_handshake", "ok"}
    /\ certs \in IF mode = "file" /\ io = "ok"
                 THEN {<<>>} \cup SeqsUpTo(FileCert, MaxBundle)
                 ELSE {<<>>}
    /\ peerLeaf \in IF mode = "server" /\ io = "ok"
                    THEN {NoPeerCert} \cup PeerCert
                    ELSE {NoPeerCert}
    /\ peerStack \in IF mode = "server" /\ io = "ok"
                     THEN {<<>>} \cup SeqsUpTo(PeerCert, MaxBundle)
                     ELSE {<<>>}
    /\ seq = <<>>
    /\ used = {}
    /\ current = None
    /\ unused = <<>>
    /\ prev = NoCall
    /\ dseq = <<>>
    /\ dunused = <<>>
    /\ issues = <<>>
    /\ assembled = <<>>
    /\ engine = NoEngine
    /\ outcome = NoOutcome
    /\ out = <<>>
    /\ BundleIdle
    /\ TypeIdle

NextDiag ==
    \/ FileRejected
    \/ FileOrderPrint
    \/ FilePrintFails
    \/ FileAssemble
    \/ FileValidate
    \/ FileReport
    \/ ServerUnreachable
    \/ ServerChainPrint
    \/ ServerPrintFails
    \/ ReportValidate
    \/ ReportPrint
    \/ ReportNothing

\* One run of `tls-doctor diag`, on every file and every peer.
SpecDiag == InitDiag /\ [][NextDiag]_vars

\* ------------------------------------------------ util.rs, infer_cert_type
MaxEntries == 3

\* The attribute types of a subject's entries, as NIDs: the two the function
\* looks for and two it does not.
Nids == {"commonName", "organizationName", "serialNumber",
         "organizationalUnitName"}

\* Mutant: a serial number alone makes the certificate Extended Validation.
CertKind_SerialAlone(o, sn) ==
    IF sn THEN "Extended Validation"
    ELSE IF o THEN "Organization Validation"
    ELSE "Domain Validation"

\* util.rs lines 155-157: the Some(..) returned for the two flags.
CertKind(o, sn) ==
    IF o /\ sn THEN "Extended Validation"
    ELSE IF o THEN "Organization Validation"
    ELSE "Domain Validation"

\* util.rs lines 150-154: one iteration of the loop over the entries.
ScanEntry ==
    /\ pc = "scan"
    /\ scanned < Len(subject)
    /\ has_o' = (has_o \/ subject[scanned + 1] = "organizationName")
    /\ has_sn' = (has_sn \/ subject[scanned + 1] = "serialNumber")
    /\ scanned' = scanned + 1
    /\ UNCHANGED <<pc, result, ordVars, bunVars, diagVars, subject, cert_type>>

\* util.rs lines 155-157: the loop is over, the kind is returned.
Classify ==
    /\ pc = "scan"
    /\ scanned = Len(subject)
    /\ cert_type' = CertKind(has_o, has_sn)
    /\ pc' = "done"
    /\ UNCHANGED <<result, ordVars, bunVars, diagVars, subject, scanned,
                   has_o, has_sn>>

InitType ==
    /\ pc = "scan"
    /\ result = NoResult
    /\ subject \in {<<>>} \cup SeqsUpTo(Nids, MaxEntries)
    /\ scanned = 0
    /\ has_o = FALSE
    /\ has_sn = FALSE
    /\ cert_type = NoKind
    /\ OrderIdle
    /\ BundleIdle
    /\ DiagIdle

NextType == ScanEntry \/ Classify

\* One call of infer_cert_type, on every subject.
SpecType == InitType /\ [][NextType]_vars

\* ======================================================== claims, orderer
Positions(cs) == 1..Len(cs)
SelfSigned(c) == c.subj = c.iss
Injective(f) == \A a, b \in DOMAIN f : f[a] = f[b] => a = b

\* The arrangements of the positions M as a linear chain c_0..c_k: pairwise
\* distinct subjects, each issuer the next subject, the last one self-signed.
ChainOrders(cs, M) ==
    {p \in [1..Cardinality(M) -> M] :
        /\ Injective(p)
        /\ \A a, b \in M : cs[a].subj = cs[b].subj => a = b
        /\ \A k \in 1..(Cardinality(M) - 1) : cs[p[k]].iss = cs[p[k + 1]].subj
        /\ SelfSigned(cs[p[Cardinality(M)]])}

\* The precondition of C1 as the claim states it.
UniqueIssuerMatch(cs) ==
    \A i \in Positions(cs) :
        Cardinality({j \in Positions(cs) : cs[j].subj = cs[i].iss}) = 1
UniqueRoot(cs) ==
    Cardinality({i \in Positions(cs) : SelfSigned(cs[i])}) = 1

\* The position of the certificate that issued position i.
IssuerPos(cs, i) == CHOOSE j \in Positions(cs) : cs[j].subj = cs[i].iss
RECURSIVE Ancestor(_, _, _)
Ancestor(cs, i, k) ==
    IF k = 0 THEN i ELSE Ancestor(cs, IssuerPos(cs, i), k - 1)
AllReachRoot(cs) ==
    \A i \in Positions(cs) : SelfSigned(cs[Ancestor(cs, i, Len(cs))])
NoSharedIssuer(cs) ==
    \A i, j \in Positions(cs) :
        (~SelfSigned(cs[i]) /\ ~SelfSigned(cs[j]) /\ cs[i].iss = cs[j].iss)
            => i = j

\* What C1 promises of the result: every input certificate exactly once in
\* `ordered`, the self-signed root last, `unused` empty.
WholeChainToRoot ==
    /\ Len(seq) = Len(certs)
    /\ Range(seq) = Positions(certs)
    /\ SelfSigned(certs[Last(seq)])
    /\ unused = <<>>

\* C1 as stated: whenever every issuer-DN is the subject-DN of exactly one
\* certificate of the input and exactly one certificate is self-signed, the
\* result is the whole input ending at the root, with nothing unused.
C1_AsStated ==
    (pc = "returned" /\ UniqueIssuerMatch(certs) /\ UniqueRoot(certs))
        => WholeChainToRoot

\* C1 amended: the same, for inputs in which moreover every certificate
\* reaches the root along issuer links and no two certificates other than the
\* root share an issuer-DN.
C1_WholeChain ==
    (/\ pc = "returned"
     /\ UniqueIssuerMatch(certs)
     /\ UniqueRoot(certs)
     /\ AllReachRoot(certs)
     /\ NoSharedIssuer(certs))
        => WholeChainToRoot

\* A shuffled three-certificate input of that shape (root first) was ordered.
C1_Witness ==
    /\ pc = "returned"
    /\ Len(certs) = MaxCerts
    /\ UniqueIssuerMatch(certs)
    /\ UniqueRoot(certs)
    /\ AllReachRoot(certs)
    /\ NoSharedIssuer(certs)
    /\ SelfSigned(certs[1])
    /\ Len(seq) = MaxCerts

\* The leaf candidates, by the definition of the specification: subject-DN
\* used as issuer-DN by no certificate of the input.
LeafCandidates(cs) ==
    {i \in Positions(cs) : \A j \in Positions(cs) : cs[j].iss # cs[i].subj}
DistinctSubjects(cs) ==
    \A i, j \in Positions(cs) : cs[i].subj = cs[j].subj => i = j

SameAsPreviousCall ==
    /\ certs[seq[1]] = prev.leaf
    /\ BagOf(CertsAt(certs, unused)) = prev.unused

\* C2 as stated: a second call on any permutation of the same certificates
\* returns the same leaf and the same multiset of unused certificates.
C2_AsStated ==
    (pc = "returned" /\ prev # NoCall) => SameAsPreviousCall

\* C2 amended: that holds for sets with exactly one leaf candidate and
\* pairwise distinct subject-DNs.
C2_PermutationStable ==
    (/\ pc = "returned"
     /\ prev # NoCall
     /\ Cardinality(LeafCandidates(certs)) = 1
     /\ DistinctSubjects(certs))
        => SameAsPreviousCall

\* A second call on such a set, with the leaf not in first place and a
\* certificate left unused, has returned.
C2_Witness ==
    /\ pc = "returned"
    /\ prev # NoCall
    /\ Cardinality(LeafCandidates(certs)) = 1
    /\ DistinctSubjects(certs)
    /\ seq[1] # 1
    /\ unused # <<>>

DNsOf(cs, S) == {cs[i].subj : i \in S} \cup {cs[i].iss : i \in S}
Unrelated(cs, M) ==
    /\ M # {}
    /\ Positions(cs) \ M # {}
    /\ DNsOf(cs, M) \cap DNsOf(cs, Positions(cs) \ M) = {}
\* A main chain: a complete linear chain of a leaf and at least its root.
MainChain(cs, M) == Cardinality(M) >= 2 /\ ChainOrders(cs, M) # {}
\* The certificate the specification starts from: the first leaf candidate in
\* input order, the first certificate when there is none.
FirstCandidate(cs) ==
    IF LeafCandidates(cs) = {} THEN 1 ELSE Min(LeafCandidates(cs))
AllUnused(cs, U) == U \subseteq Range(unused) /\ U \cap Range(seq) = {}

\* C3 as stated: for a main chain M plus certificates sharing no DN with it,
\* at any input position, all of those are unused and none is ordered.
C3_AsStated ==
    pc = "returned" =>
        \A M \in SUBSET Positions(certs) :
            (MainChain(certs, M) /\ Unrelated(certs, M))
                => AllUnused(certs, Positions(certs) \ M)

\* C3 amended: for every part M of the input (a main chain in particular)
\* that holds the first leaf candidate, or the first certificate when there
\* is no candidate, the certificates sharing no DN with M are all unused and
\* none is ordered.
C3_UnrelatedUnused ==
    pc = "returned" =>
        \A M \in SUBSET Positions(certs) :
            (Unrelated(certs, M) /\ FirstCandidate(certs) \in M)
                => AllUnused(certs, Positions(certs) \ M)

\* A main chain preceded in the input by an unrelated certificate was ordered.
C3_Witness ==
    /\ pc = "returned"
    /\ \E M \in SUBSET Positions(certs) :
          /\ MainChain(certs, M)
          /\ Unrelated(certs, M)
          /\ FirstCandidate(certs) \in M
          /\ 1 \notin M
          /\ Range(seq) = M

\* C4: a linear chain c_0..c_k given in any order is returned as exactly
\* [c_0, ..., c_k], with nothing unused.
C4_LinearChainOrdered ==
    pc = "returned" =>
        \A p \in ChainOrders(certs, Positions(certs)) :
            seq = p /\ unused = <<>>

\* The chain of three given as [intermediate, leaf, root] was ordered.
C4_Witness ==
    /\ pc = "returned"
    /\ <<2, 1, 3>> \in ChainOrders(certs, Positions(certs))
    /\ seq = <<2, 1, 3>>

\* C13: the first entry of the sequence is the first certificate, in input
\* order, whose subject is the issuer of no certificate of the input (itself
\* included); when there is no such certificate (a pure cycle, or only
\* self-signed certificates) it is the first certificate of the input.
C13_FirstCandidateLeads ==
    /\ pc \in {"walk", "collect", "returned"} => seq # <<>>
    /\ seq # <<>> =>
          /\ LeafCandidates(certs) # {} =>
                /\ seq[1] \in LeafCandidates(certs)
                /\ \A i \in LeafCandidates(certs) : seq[1] <= i
          /\ LeafCandidates(certs) = {} => seq[1] = 1

\* The call has returned on three certificates of which the second and the
\* third are leaf candidates and the first is not.
C13_Witness ==
    /\ pc = "returned"
    /\ LeafCandidates(certs) = {2, 3}
    /\ seq[1] = 2

Occurrences(s, x) == Cardinality({k \in 1..Len(s) : s[k] = x})

\* C14: when the call returns, every input position occurs exactly once in
\* seq and unused taken together (also when two entries have the same subject
\* or are the same certificate), so the two lengths add up to the length of
\* the input, and unused lists its positions in increasing order.
C14_Partition ==
    pc = "returned" =>
        /\ Range(seq) \cup Range(unused) \subseteq Positions(certs)
        /\ \A i \in Positions(certs) :
              Occurrences(seq, i) + Occurrences(unused, i) = 1
        /\ Len(seq) + Len(unused) = Len(certs)
        /\ \A a, b \in 1..Len(unused) : a < b => unused[a] < unused[b]

\* The call has returned on a bundle whose first two entries are the same
\* certificate, one ordered and the other unused along with a third entry.
C14_Witness ==
    /\ pc = "returned"
    /\ Len(certs) = 3
    /\ certs[1] = certs[2]
    /\ seq = <<1>>
    /\ unused = <<2, 3>>

\* The steps a call of the orderer has yet to take, at most.
OrderStepsLeft(at, cs, sq) ==
    CASE at = "order" -> Len(cs) + 2
      [] at = "walk" -> Len(cs) - Len(sq) + 2
      [] at = "collect" -> 1
      [] OTHER -> 0

\* C16: a call on a non-empty input returns: until it has returned it always
\* has a next step, and every step lowers a bound on the steps left that is
\* never negative. The sequence never holds a certificate twice, so the walk
\* appends at most |input| - 1 certificates after the leaf, and the walk ends
\* only at a self-signed certificate, at an issuer name that no certificate
\* of the input has as subject, or at an issuer (the first certificate with
\* that subject) that is already in the sequence.
C16_WalkTerminates ==
    /\ [](certs # <<>>)
    /\ [](Injective(seq) /\ Range(seq) \subseteq Positions(certs))
    /\ [](seq # <<>> => Len(seq) - 1 <= Len(certs) - 1)
    /\ [](OrderStepsLeft(pc, certs, seq) >= 0)
    /\ [](pc # "returned" => ENABLED NextOrder)
    /\ [][OrderStepsLeft(pc', certs', seq') < OrderStepsLeft(pc, certs, seq)]_vars
    /\ [][(pc = "walk" /\ pc' = "collect") =>
              LET cur == certs[Last(seq)]
              IN \/ SelfSigned(cur)
                 \/ \A i \in Positions(certs) : certs[i].subj # cur.iss
                 \/ \E i \in Range(seq) :
                       /\ certs[i].subj = cur.iss
                       /\ \A j \in 1..(i - 1) : certs[j].subj # cur.iss]_vars

\* The call has returned on a cycle through every certificate of the input,
\* which the walk went round once.
C16_Witness ==
    /\ pc = "returned"
    /\ Len(seq) = MaxCerts
    /\ \A i \in Positions(certs) : ~SelfSigned(certs[i])
    /\ certs[Last(seq)].iss = certs[seq[1]].subj

\* ================================================= claims, bundle builder
SubjectsOf(ch) == {ch[i].subj : i \in 1..Len(ch)}
NoDuplicateSubject(ch) ==
    \A i, j \in 1..Len(ch) : ch[i].subj = ch[j].subj => i = j

\* C5: at every step of the walk and in the returned chain no two entries of
\* the chain have the same subject-DN, and `seen` is exactly the set of the
\* subject-DNs of the chain's entries.
C5_NoDuplicateSubject ==
    NoDuplicateSubject(chain) /\ seen = SubjectsOf(chain)

\* The walk has returned after a URL served an issuer whose subject-DN is the
\* leaf's, two hops up.
C5_Witness ==
    /\ pc = "done"
    /\ Len(chain) >= 2
    /\ next_issuer # NoCert
    /\ next_issuer.subj = chain[1].subj

\* C6: a failed fetch never fails the call. Once the client is built the
\* chain starts with the input leaf and the call returns Ok; an error return
\* comes before any fetch; and when every fetch failed the returned chain is
\* exactly [leaf].
C6_FailuresAbsorbed ==
    /\ chain # <<>> => chain[1] = leaf
    /\ (pc = "done" /\ chain # <<>>) => result = "Ok"
    /\ result = "Err" => (fetches = 0 /\ chain = <<>>)
    /\ (pc = "done" /\ result = "Ok" /\ allFailed) => chain = <<leaf>>

\* The call has returned after every URL of the leaf was fetched and failed.
C6_Witness ==
    /\ pc = "done"
    /\ result = "Ok"
    /\ allFailed
    /\ fetches = MaxUrls
    /\ chain = <<leaf>>

\* C7: no fetch is issued while the last entry of the chain is self-signed,
\* a self-signed leaf causes no fetch at all, and only the last entry of the
\* chain can be self-signed.
C7_StopsAtSelfSigned ==
    /\ [][fetches' # fetches => ~SelfSigned(Last(chain))]_vars
    /\ [](leaf # NoCert /\ SelfSigned(leaf) => fetches = 0)
    /\ [](\A i \in 1..(Len(chain) - 1) : ~SelfSigned(chain[i]))

\* The walk has returned at a fetched self-signed issuer that itself carries
\* caIssuers URLs.
C7_Witness ==
    /\ pc = "done"
    /\ Len(chain) >= 2
    /\ SelfSigned(Last(chain))
    /\ Last(chain).aia # <<>>

\* Every entry of the sequence s is issued by the name of the entry after it.
Linked(s) == \A i \in 1..(Len(s) - 1) : s[i].iss = s[i + 1].subj

\* C15: at every moment of a call of order_chain_leaf_to_root and of a call
\* of build_bundle_from_leaf, hence after every append and in what is
\* returned, each entry of the sequence under construction has as issuer
\* name the subject name of the entry after it; a step that appends keeps
\* what was there, and what it appends has the issuer name of the entry before
\* it as subject name.
C15_ChainLinked ==
    /\ [](Linked(CertsAt(certs, seq)) /\ Linked(chain))
    /\ [][(Len(seq') > Len(seq) /\ seq # <<>>) =>
              /\ seq' = Append(seq, Last(seq'))
              /\ certs[Last(seq')].subj = certs[Last(seq)].iss]_vars
    /\ [][(Len(chain') > Len(chain) /\ chain # <<>>) =>
              /\ chain' = Append(chain, Last(chain'))
              /\ Last(chain').subj = Last(chain).iss]_vars

\* A bundle has been built by two appends, up to a self-signed certificate.
C15_Witness ==
    /\ pc = "done"
    /\ Len(chain) = 3
    /\ SelfSigned(chain[3])

\* The steps a call of the builder has yet to take, at most: every subject
\* not yet seen allows one more hop, of one fetch per URL and two more steps,
\* and a last hop finds nothing to append.
HopSteps == MaxUrls + 2
BundleStepsLeft ==
    LET hops == Cardinality(BundleDNs \ seen)
    IN CASE pc = "client" -> (Cardinality(BundleDNs) + 1) * HopSteps + 3
         [] pc = "loop" -> (hops + 1) * HopSteps + 2
         [] pc = "fetch" -> hops * HopSteps + 3 + Len(urls)
         [] pc = "match" -> hops * HopSteps + 3
         [] pc = "return" -> 1
         [] OTHER -> 0

\* C17, for the entries of the URL list: the call returns (until then it
\* always has a next step, and every step lowers a bound on the steps left
\* that is never negative); every append adds a subject not seen before, so
\* at most as many issuers are appended as there are subject names; within a
\* hop the entries of current's URL list are fetched in the order of the
\* list, each entry at most once, and none once an issuer has matched.
C17_EntriesFetchedOnce ==
    /\ [](BundleStepsLeft >= 0)
    /\ [](pc # "done" => ENABLED NextBundle)
    /\ [][BundleStepsLeft' < BundleStepsLeft]_vars
    /\ [](Len(chain) - 1 <= Cardinality(BundleDNs))
    /\ [][(Len(chain') > Len(chain) /\ chain # <<>>) =>
              Last(chain').subj \notin seen]_vars
    /\ [](pc \in {"fetch", "match"} =>
              fetched \o urls = AiaCaIssuersUrls(Last(chain)))
    /\ [][fetches' # fetches => next_issuer = NoCert]_vars

\* C17 as stated: the call returns, at most as many issuers are appended as
\* there are subject names, and within a hop each URL is fetched at most
\* once, in the order of the list, and none once an issuer has matched.
C17_AsStated ==
    /\ C17_EntriesFetchedOnce
    /\ [](Injective(fetched))

\* The call has returned after a hop that fetched both entries of a list
\* naming the same URL twice, the first fetch having given no matching
\* issuer and the second a new one.
C17_Witness ==
    /\ pc = "done"
    /\ Len(chain) = 2
    /\ AiaCaIssuersUrls(leaf) = <<1, 1>>
    /\ fetched = <<1, 1>>
    /\ fetches = 2

\* ================================================= claims, diagnostic run
VerdictTags == {"valid", "has_issues", "issue"}
\* The lines of the verdict, in the order they were written.
VerdictOf(lines) == SelectSeq(lines, LAMBDA l : l.tag \in VerdictTags)
KindsOf(is) == {is[k].kind : k \in 1..Len(is)}

\* C8: every validate_chain call returns exactly one of Valid, Invalid (with
\* the engine's error, depth and certificate) and EngineError: Valid exactly
\* when verification ran and passed, Invalid exactly when it ran and failed,
\* EngineError whenever a set-up call failed (never Valid or Invalid then).
C8_OutcomeClassified ==
    engine # NoEngine =>
        /\ outcome.kind \in {"Valid", "Invalid", "EngineError"}
        /\ outcome.kind = "Valid"
               <=> (engine.step = "verify" /\ engine.ret = "pass")
        /\ outcome.kind = "Invalid"
               <=> (engine.step = "verify" /\ engine.ret = "fail")
        /\ engine.step # "verify" => outcome.kind = "EngineError"
        /\ outcome.kind = "Invalid" =>
               /\ outcome.code = engine.code
               /\ outcome.depth = engine.depth
               /\ outcome.on # ""

\* validate_chain has returned after stack.push failed on an intermediate.
C8_Witness ==
    /\ engine.step = "stack_push"
    /\ outcome.kind = "EngineError"
    /\ Len(dseq) >= 2

\* What the engine's outcome adds to the issues of the bundle.
EngineIssues(o) ==
    IF o.kind = "Valid" THEN <<>>
    ELSE IF o.kind = "Invalid" THEN <<InvalidIssue(o)>>
    ELSE <<EngineErrorIssue(o)>>

\* C9: when run_with_file has printed its verdict, the verdict is the
\* "valid" line if and only if the engine outcome is Valid and no issue was
\* accumulated; otherwise it is the "has issues" line followed by every
\* accumulated issue, in order, and then the engine's message or error. The
\* accumulated issues name the unrelated certificates exactly when some
\* certificate is unused.
C9_VerdictCarriesIssues ==
    (pc = "done" /\ mode = "file" /\ result = "Ok") =>
        /\ VerdictOf(out) = <<ValidLine>>
               <=> (outcome.kind = "Valid" /\ assembled = <<>>)
        /\ VerdictOf(out) # <<ValidLine>> =>
               VerdictOf(out) = <<HasIssuesLine>>
                   \o IssueLines(assembled \o EngineIssues(outcome))
        /\ dunused # <<>> <=> "unrelated" \in KindsOf(assembled)
        /\ dunused # <<>> =>
               assembled[1].who
                   = [k \in 1..Len(dunused) |-> CnLabel(SubjectCn(dunused[k]))]
        /\ KindsOf(assembled) \subseteq
               {"unrelated", "incomplete", "root_signature"}

\* A file run has ended on an engine-valid chain that is flagged both for an
\* unrelated certificate and for a missing issuer.
C9_Witness ==
    /\ pc = "done"
    /\ mode = "file"
    /\ result = "Ok"
    /\ outcome.kind = "Valid"
    /\ KindsOf(assembled) = {"unrelated", "incomplete"}
    /\ VerdictOf(out)[1] = HasIssuesLine

\* C10: whenever a diagnostic run, on a file or on a live handshake, has
\* validated a chain and ended, "chain incomplete: missing issuer <label>"
\* is among the printed issues if the last certificate of the chain is not
\* self-signed, and no such issue is printed if it is self-signed.
C10_AsStated ==
    (pc = "done" /\ result = "Ok" /\ outcome # NoOutcome) =>
        /\ Last(dseq).subj # Last(dseq).iss =>
               IssueLine(IncompleteIssue(Last(dseq))) \in Range(out)
        /\ Last(dseq).subj = Last(dseq).iss =>
               \A k \in 1..Len(out) : out[k].issue.kind # "incomplete"

\* C10, on a PEM bundle file only: the issue is printed exactly when the last
\* certificate of the ordered chain is not self-signed.
C10_FileOnly ==
    (pc = "done" /\ mode = "file" /\ result = "Ok") =>
        (Last(dseq).subj # Last(dseq).iss
            <=> IssueLine(IncompleteIssue(Last(dseq))) \in Range(out))

\* A live-handshake run has ended with the valid verdict on a chain whose
\* last certificate is not self-signed.
C10_ServerIncomplete ==
    /\ pc = "done"
    /\ mode = "server"
    /\ result = "Ok"
    /\ dseq # <<>>
    /\ Last(dseq).subj # Last(dseq).iss
    /\ VerdictOf(out) = <<ValidLine>>

ChainTags == {"header", "cert", "is_issued_by"}

\* The chain and the unused certificates, as a finished listing prints them.
Listing == <<HeaderLine>> \o PrintChainWithSeparator(dseq)
               \o PrintUnused(dseq, dunused)

\* The steps a run has yet to take, at most, from a control position.
StepsLeft(at) ==
    CASE at = "diag" -> 4
      [] at = "assemble" -> 3
      [] at = "validate" -> 2
      [] at = "report" -> 2
      [] at = "verdict" -> 1
      [] at = "reported" -> 1
      [] OTHER -> 0

\* C11: in every diagnostic run, on a file or on a live handshake, every line
\* of the chain listing is written before every line of the verdict; once
\* validate_chain has returned the whole ordered chain has been printed, the
\* run never returns an error, and it goes on to print the verdict, which for
\* an Invalid or engine-error outcome is the "has issues" line followed by
\* all issues, the engine's last, and then returns normally (it always has a
\* next step until it has returned, and every step brings the return nearer).
C11_ReportNeverAborts ==
    /\ [](\A i, j \in 1..Len(out) :
             (out[i].tag \in ChainTags /\ out[j].tag \in VerdictTags) => i < j)
    /\ [](outcome # NoOutcome =>
             /\ result # "Err"
             /\ SubSeq(out, 1, Len(Listing)) = Listing)
    /\ []((outcome # NoOutcome /\ pc = "done") =>
             /\ result = "Ok"
             /\ out = Listing \o VerdictOf(out)
             /\ VerdictOf(out) # <<>>
             /\ outcome.kind # "Valid" =>
                    /\ VerdictOf(out)[1] = HasIssuesLine
                    /\ Last(VerdictOf(out)) = IssueLine(EngineIssues(outcome)[1])
                    /\ Len(VerdictOf(out)) = 1 + Len(assembled) + 1)
    /\ []((outcome # NoOutcome /\ pc # "done") => ENABLED NextDiag)
    /\ [][StepsLeft(pc') < StepsLeft(pc)]_vars

\* A live-handshake run has returned normally after an engine error on a
\* chain of two certificates.
C11_Witness ==
    /\ pc = "done"
    /\ mode = "server"
    /\ result = "Ok"
    /\ outcome.kind = "EngineError"
    /\ Len(dseq) = 2

\* ================================================ claims, infer_cert_type
\* C12: infer_cert_type returns a kind for every subject, never None:
\* "Extended Validation" when the subject has an Organization and a
\* SerialNumber entry, "Organization Validation" when it has an Organization
\* and no SerialNumber, "Domain Validation" when it has no Organization,
\* whether or not it has a SerialNumber.
C12_KindTotal ==
    (pc = "done" \/ cert_type # NoKind) =>
        LET o == "organizationName" \in Range(subject)
            sn == "serialNumber" \in Range(subject)
        IN /\ cert_type \in {"Extended Validation", "Organization Validation",
                             "Domain Validation"}
           /\ (o /\ sn) => cert_type = "Extended Validation"
           /\ (o /\ ~sn) => cert_type = "Organization Validation"
           /\ ~o => cert_type = "Domain Validation"

\* The function has returned on a subject with a serial number and no
\* organization.
C12_Witness ==
    /\ pc = "done"
    /\ cert_type = "Domain Validation"
    /\ "serialNumber" \in Range(subject)
    /\ "organizationName" \notin Range(subject)
    /\ Len(subject) = MaxEntries

====
